---- MODULE Spec2Model ----
(***************************************************************************)
(* BinaryMessageParser (src/binary-message-parser.js): reassembly of       *)
(* size-prefixed binary messages from a chunked byte stream.               *)
(*                                                                         *)
(* A Buffer is a sequence of bytes; Buffer index i (0-based) is sequence   *)
(* index i + 1.  Callbacks handed to setImmediate wait in immediateQueue   *)
(* and run one at a time, in order, between calls.                         *)
(***************************************************************************)
EXTENDS Integers, Sequences, FiniteSets, TLC

\* Bounds of the model.
MaxStreamLen == 5
MaxInitialBufferSize == 2

\* ------------------------------------------------------------ helpers

Min(a, b) == IF a < b THEN a ELSE b

SeqsUpTo(S, n) == UNION {[1..k -> S] : k \in 0..n}

\* ------------------------------------------------------ Buffer (Node)

\* Buffer.alloc(size): a zero-filled buffer.
BufferAlloc(size) == [i \in 1..size |-> 0]

\* buf.slice(start, end): the bytes start .. end-1, end clamped to length.
BufferSlice(buf, start, end) == SubSeq(buf, start + 1, Min(end, Len(buf)))

\* source.copy(target, targetStart, sourceStart, sourceEnd) throws a
\* RangeError when an index is negative.
BufferCopyThrows(targetStart, sourceStart, sourceEnd) ==
    targetStart < 0 \/ sourceStart < 0 \/ sourceEnd < 0

\* source.copy(target, targetStart, sourceStart, sourceEnd): the target
\* after the copy; nothing is copied when sourceStart >= sourceEnd or
\* targetStart is beyond the target, and the copy is cut to the room left.
BufferCopy(source, target, targetStart, sourceStart, sourceEnd) ==
    IF targetStart >= Len(target) \/ sourceStart >= sourceEnd
    THEN target
    ELSE LET nb == Min(Min(sourceEnd, Len(source)) - sourceStart,
                       Len(target) - targetStart)
         IN  [i \in 1..Len(target) |->
                IF i > targetStart /\ i <= targetStart + nb
                THEN source[sourceStart + (i - targetStart)]
                ELSE target[i]]

\* Mutation of BufferConcat: the buffers are joined in the other order.
BufferConcatSwapped(a, b) == b \o a

\* Buffer.concat([a, b])
BufferConcat(a, b) == a \o b

\* buf.readUInt8(0), buf.readInt8(0), ...
readUInt8(b) == b[1]
readInt8(b) == IF b[1] >= 128 THEN b[1] - 256 ELSE b[1]
readUInt16LE(b) == b[1] + 256 * b[2]
readUInt16BE(b) == 256 * b[1] + b[2]
readInt16LE(b) == IF b[2] >= 128 THEN readUInt16LE(b) - 65536 ELSE readUInt16LE(b)
readInt16BE(b) == IF b[1] >= 128 THEN readUInt16BE(b) - 65536 ELSE readUInt16BE(b)
readUInt32LE(b) == b[1] + 256 * b[2] + 65536 * b[3] + 16777216 * b[4]
readUInt32BE(b) == 16777216 * b[1] + 65536 * b[2] + 256 * b[3] + b[4]
\* two's complement: the top byte counts as b - 256 when its high bit is set
readInt32LE(b) ==
    b[1] + 256 * b[2] + 65536 * b[3]
      + 16777216 * (IF b[4] >= 128 THEN b[4] - 256 ELSE b[4])
readInt32BE(b) ==
    16777216 * (IF b[1] >= 128 THEN b[1] - 256 ELSE b[1])
      + 65536 * b[2] + 256 * b[3] + b[4]

\* --------------------------------------------------- header extractors

\* createPODExtractor(headerByteCount, methodName)
createPODExtractor(count, methodName) ==
    [headerByteCount |-> count, methodName |-> methodName, hasValidate |-> TRUE]

HeaderExtractorInt8     == createPODExtractor(1, "readInt8")
HeaderExtractorUInt8    == createPODExtractor(1, "readUInt8")
HeaderExtractorInt16LE  == createPODExtractor(2, "readInt16LE")
HeaderExtractorUInt16LE == createPODExtractor(2, "readUInt16LE")
HeaderExtractorInt16BE  == createPODExtractor(2, "readInt16BE")
HeaderExtractorUInt16BE == createPODExtractor(2, "readUInt16BE")
\* Mutation of HeaderExtractorInt32LE: the method of the other byte order.
HeaderExtractorInt32LEAsBE == createPODExtractor(4, "readInt32BE")

HeaderExtractorInt32LE  == createPODExtractor(4, "readInt32LE")
HeaderExtractorUInt32LE == createPODExtractor(4, "readUInt32LE")
HeaderExtractorInt32BE  == createPODExtractor(4, "readInt32BE")
HeaderExtractorUInt32BE == createPODExtractor(4, "readUInt32BE")

\* module.exports.HeaderExtractorInt8 = ..., by exported name.
StandardExtractors ==
    [ HeaderExtractorInt8     |-> HeaderExtractorInt8,
      HeaderExtractorUInt8    |-> HeaderExtractorUInt8,
      HeaderExtractorInt16LE  |-> HeaderExtractorInt16LE,
      HeaderExtractorUInt16LE |-> HeaderExtractorUInt16LE,
      HeaderExtractorInt16BE  |-> HeaderExtractorInt16BE,
      HeaderExtractorUInt16BE |-> HeaderExtractorUInt16BE,
      HeaderExtractorInt32LE  |-> HeaderExtractorInt32LE,
      HeaderExtractorUInt32LE |-> HeaderExtractorUInt32LE,
      HeaderExtractorInt32BE  |-> HeaderExtractorInt32BE,
      HeaderExtractorUInt32BE |-> HeaderExtractorUInt32BE ]

\* Extractors a caller wrote without a validateMessageSize: the decoding
\* of a standard one, and nothing to validate the size with.
WithoutValidate(e) == [e EXCEPT !.hasValidate = FALSE]

CustomExtractors ==
    [ customInt8    |-> WithoutValidate(HeaderExtractorInt8),
      customInt16BE |-> WithoutValidate(HeaderExtractorInt16BE) ]

\* buffer => buffer[methodName](0)
extractMessageSize(e, buffer) ==
    CASE e.methodName = "readInt8"     -> readInt8(buffer)
      [] e.methodName = "readUInt8"    -> readUInt8(buffer)
      [] e.methodName = "readInt16LE"  -> readInt16LE(buffer)
      [] e.methodName = "readUInt16LE" -> readUInt16LE(buffer)
      [] e.methodName = "readInt16BE"  -> readInt16BE(buffer)
      [] e.methodName = "readUInt16BE" -> readUInt16BE(buffer)
      [] e.methodName = "readInt32LE"  -> readInt32LE(buffer)
      [] e.methodName = "readUInt32LE" -> readUInt32LE(buffer)
      [] e.methodName = "readInt32BE"  -> readInt32BE(buffer)
      [] e.methodName = "readUInt32BE" -> readUInt32BE(buffer)

\* Mutation of DefaultValidateMessageSize: the policy of the standard
\* extractors.
DefaultValidateAtLeastHeader(e, size) == size >= e.headerByteCount

\* The validator the constructor installs when the extractor has none.
DefaultValidateMessageSize(e, size) == TRUE

\* size => size >= headerByteCount for the standard extractors.
validateMessageSize(e, size) ==
    IF e.hasValidate THEN size >= e.headerByteCount
    ELSE DefaultValidateMessageSize(e, size)

\* ------------------------------------------------- BinaryMessageParser

\* The object a method works on: the parser's fields, the callbacks handed
\* to setImmediate and not yet run (immediateQueue), the events its
\* listeners have received (emitted), and whether the call has thrown.
ParserFields(buf, size, expected, extracted, shutdown, queue, events) ==
    [ unfinishedMessageBuffer |-> buf,
      unfinishedMessageSize   |-> size,
      expectedMessageSize     |-> expected,
      bMessageHeaderExtracted |-> extracted,
      bShutdown               |-> shutdown,
      immediateQueue          |-> queue,
      emitted                 |-> events,
      thrown                  |-> FALSE ]

\* constructor: a zero-filled buffer of initialBufferSize bytes, nothing
\* carried, not shut down.
NewParser(initialBufferSize) ==
    ParserFields(BufferAlloc(initialBufferSize), 0, 0, FALSE, FALSE,
                 <<>>, <<>>)

\* What a method call leaves behind: the object and the returned value.
Ret(self, value) == [self |-> self, value |-> value]

\* The callbacks handed to setImmediate.  A callback that emits a message
\* holds a Buffer: `memory` names the memory the Buffer is a window onto
\* ("own": the Buffer.alloc of _notifyMessageReceived, shared with nobody)
\* and `message` the bytes of that memory.
MessageCallback(message) ==
    [type |-> "message", message |-> message, size |-> 0, late |-> FALSE,
     memory |-> "own", offset |-> 0]

\* _startNewMessage's callback: messageSize is a const captured at the call.
ErrorCallbackCaptured(messageSize) ==
    [type |-> "error", message |-> <<>>, size |-> messageSize, late |-> FALSE,
     memory |-> "own", offset |-> 0]

\* _continueUnfinishedMessage's callback reads this.expectedMessageSize
\* when it runs.
ErrorCallbackLate ==
    [type |-> "error", message |-> <<>>, size |-> 0, late |-> TRUE,
     memory |-> "own", offset |-> 0]

\* The size in the context of the error: messageSize as captured, or
\* this.expectedMessageSize as it is when the callback runs.
ErrorContextSize(callback, expected) ==
    IF callback.late THEN expected ELSE callback.size

\* What a listener receives: emit('message', message) and
\* emit('error', ERR_INVALID_MSG_SIZE, {size}).
MessageEvent(message) ==
    [type |-> "message", message |-> message, size |-> 0, err |-> "null",
     context |-> FALSE]

ERR_INVALID_MSG_SIZE == "invalid message size"

ErrorEvent(size) ==
    [type |-> "error", message |-> <<>>, size |-> size,
     err |-> ERR_INVALID_MSG_SIZE, context |-> TRUE]

\* The 'error' event stream.Writable emits on the parser itself: the
\* listener gets the stream's error and no context argument.
StreamErrorEvent(code) ==
    [type |-> "error", message |-> <<>>, size |-> 0, err |-> code,
     context |-> FALSE]

\* The event the callback emits when it runs with this.expectedMessageSize
\* being `expected`.
EventOf(callback, expected) ==
    IF callback.type = "message"
    THEN MessageEvent(callback.message)
    ELSE ErrorEvent(ErrorContextSize(callback, expected))

\* The callback as it is when the event loop runs it: the bytes of its
\* message are those its Buffer's memory holds at that moment.  Memory of
\* its own holds what was copied into it; a window onto the carry buffer
\* or onto the caller's chunk (what Buffer.prototype.slice returns) holds
\* whatever has been written there since.
Held(callback, carry, chunk) ==
    IF callback.type # "message" \/ callback.memory = "own"
    THEN callback
    ELSE MessageCallback(
             BufferSlice(IF callback.memory = "carry" THEN carry ELSE chunk,
                         callback.offset, callback.offset + callback.size))

\* Mutation of setImmediate: the callback runs before those already waiting.
setImmediateFirst(queue, callback) == <<callback>> \o queue

\* setImmediate(callback): the callback joins the end of the queue of
\* callbacks the event loop runs after the current call.
setImmediate(queue, callback) == Append(queue, callback)

\* Mutation of isShutdown: the latch is never seen.
isShutdownNever(self) == FALSE

isShutdown(self) == self.bShutdown

\* Mutation of _reset: expectedMessageSize is left as it was.
_resetKeepingExpected(self) ==
    [self EXCEPT !.bMessageHeaderExtracted = FALSE,
                 !.unfinishedMessageSize = 0]

\* Mutation of _reset: the carry buffer is released as well.
_resetReleasingBuffer(self) ==
    [self EXCEPT !.bMessageHeaderExtracted = FALSE,
                 !.expectedMessageSize = 0,
                 !.unfinishedMessageSize = 0,
                 !.unfinishedMessageBuffer = BufferAlloc(1)]

isFinished(self) == self.unfinishedMessageSize = 0

_reset(self) ==
    [self EXCEPT !.bMessageHeaderExtracted = FALSE,
                 !.expectedMessageSize = 0,
                 !.unfinishedMessageSize = 0]

_extractMessageSize(e, dataBuffer, offset) ==
    LET idxEnd == offset + e.headerByteCount
        slice  == BufferSlice(dataBuffer, offset, idxEnd)
    IN  extractMessageSize(e, slice)

\* Mutation of _appendToUnfinishedMessage: a buffer that has to grow is
\* given twice the room the bytes need.
_appendToUnfinishedMessageDoubling(self, dataBuffer, offset, count) ==
    LET availableSpace ==
            Len(self.unfinishedMessageBuffer) - self.unfinishedMessageSize
        significantUnfinBuffer ==
            BufferSlice(self.unfinishedMessageBuffer, 0,
                        self.unfinishedMessageSize)
        bufferToAppend == BufferSlice(dataBuffer, offset, offset + count)
    IN  IF availableSpace < count
        THEN [self EXCEPT
                !.unfinishedMessageBuffer =
                    BufferConcat(
                        BufferConcat(significantUnfinBuffer, bufferToAppend),
                        BufferAlloc(self.unfinishedMessageSize + count)),
                !.unfinishedMessageSize = @ + count]
        ELSE [self EXCEPT
                !.unfinishedMessageBuffer =
                    BufferCopy(dataBuffer, @, self.unfinishedMessageSize,
                               offset, offset + count),
                !.unfinishedMessageSize = @ + count]

_appendToUnfinishedMessage(self, dataBuffer, offset, count) ==
    LET availableSpace ==
            Len(self.unfinishedMessageBuffer) - self.unfinishedMessageSize
    IN  IF availableSpace < count
        THEN LET significantUnfinBuffer ==
                     BufferSlice(self.unfinishedMessageBuffer, 0,
                                 self.unfinishedMessageSize)
                 bufferToAppend ==
                     BufferSlice(dataBuffer, offset, offset + count)
             IN  [self EXCEPT
                    !.unfinishedMessageBuffer =
                        BufferConcat(significantUnfinBuffer, bufferToAppend),
                    !.unfinishedMessageSize = @ + count]
        ELSE IF BufferCopyThrows(self.unfinishedMessageSize, offset,
                                 offset + count)
        THEN [self EXCEPT !.thrown = TRUE]
        ELSE [self EXCEPT
                !.unfinishedMessageBuffer =
                    BufferCopy(dataBuffer, @, self.unfinishedMessageSize,
                               offset, offset + count),
                !.unfinishedMessageSize = @ + count]

\* Mutation of _notifyMessageReceived: the copy starts at the beginning of
\* dataBuffer instead of at offset.
_notifyMessageReceivedFromStart(self, dataBuffer, offset, size) ==
    LET r == _reset(self)
    IN  IF size < 0
        THEN [r EXCEPT !.thrown = TRUE]
        ELSE LET message == BufferCopy(dataBuffer, BufferAlloc(size), 0,
                                       0, size)
             IN  [r EXCEPT !.immediateQueue =
                               setImmediate(@, MessageCallback(message))]

\* Mutation of _notifyMessageReceived: the message is
\* dataBuffer.slice(offset, offset + size), a window onto the memory of
\* dataBuffer (the carry buffer or the caller's chunk), not a copy.
_notifyMessageReceivedSlice(self, dataBuffer, offset, size) ==
    LET r == _reset(self)
    IN  IF size < 0
        THEN [r EXCEPT !.thrown = TRUE]
        ELSE [r EXCEPT !.immediateQueue =
                setImmediate(@,
                    [type |-> "message", message |-> <<>>, size |-> size,
                     late |-> FALSE,
                     memory |-> IF dataBuffer = self.unfinishedMessageBuffer
                                THEN "carry" ELSE "chunk",
                     offset |-> offset])]

\* Mutation of _notifyMessageReceived: the message is emitted inside the
\* call instead of from a setImmediate callback.
_notifyMessageReceivedSync(self, dataBuffer, offset, size) ==
    LET r == _reset(self)
    IN  IF size < 0
        THEN [r EXCEPT !.thrown = TRUE]
        ELSE LET message == BufferCopy(dataBuffer, BufferAlloc(size), 0,
                                       offset, offset + size)
             IN  [r EXCEPT !.emitted = Append(@, MessageEvent(message))]

\* Buffer.alloc(size) throws a RangeError for a negative size, after _reset.
_notifyMessageReceived(self, dataBuffer, offset, size) ==
    LET r == _reset(self)
    IN  IF size < 0
        THEN [r EXCEPT !.thrown = TRUE]
        ELSE IF BufferCopyThrows(0, offset, offset + size)
        THEN [r EXCEPT !.thrown = TRUE]
        ELSE LET message == BufferCopy(dataBuffer, BufferAlloc(size), 0,
                                       offset, offset + size)
             IN  [r EXCEPT !.immediateQueue =
                               setImmediate(@, MessageCallback(message))]

_startNewMessage(e, self, dataBuffer, offset) ==
    LET availableBytesCount == Len(dataBuffer) - offset
    IN  IF availableBytesCount < e.headerByteCount
        THEN \* missing message header bytes
             LET a == _appendToUnfinishedMessage(self, dataBuffer, offset,
                                                 availableBytesCount)
             IN  IF a.thrown THEN Ret(a, 0)
                 ELSE Ret([a EXCEPT
                             !.expectedMessageSize = e.headerByteCount,
                             !.bMessageHeaderExtracted = FALSE],
                          availableBytesCount)
        ELSE LET messageSize == _extractMessageSize(e, dataBuffer, offset)
             IN  IF ~validateMessageSize(e, messageSize)
                 THEN Ret([self EXCEPT !.immediateQueue =
                             setImmediate(@,
                                 ErrorCallbackCaptured(messageSize))],
                          -1)
                 ELSE IF availableBytesCount >= messageSize
                 THEN \* got all message bytes
                      Ret(_notifyMessageReceived(self, dataBuffer, offset,
                                                 messageSize),
                          messageSize)
                 ELSE LET a == _appendToUnfinishedMessage(
                                   self, dataBuffer, offset,
                                   availableBytesCount)
                      IN  IF a.thrown THEN Ret(a, 0)
                          ELSE Ret([a EXCEPT
                                      !.expectedMessageSize = messageSize,
                                      !.bMessageHeaderExtracted = TRUE],
                                   availableBytesCount)

_continueUnfinishedMessage(e, self, dataBuffer, offset) ==
    LET missingBytesCount ==
            self.expectedMessageSize - self.unfinishedMessageSize
        availableBytesCount == Len(dataBuffer) - offset
    IN  IF availableBytesCount < missingBytesCount
        THEN \* still missing some bytes
             Ret(_appendToUnfinishedMessage(self, dataBuffer, offset,
                                            availableBytesCount),
                 availableBytesCount)
        ELSE LET a == _appendToUnfinishedMessage(self, dataBuffer, offset,
                                                 missingBytesCount)
             IN  IF a.thrown THEN Ret(a, 0)
                 ELSE IF a.bMessageHeaderExtracted
                 THEN \* got all message bytes
                      Ret(_notifyMessageReceived(
                              a, a.unfinishedMessageBuffer, 0,
                              a.expectedMessageSize),
                          missingBytesCount)
                 ELSE \* got all message header bytes
                      LET size == _extractMessageSize(
                                      e, a.unfinishedMessageBuffer, 0)
                          b == [a EXCEPT !.expectedMessageSize = size,
                                         !.bMessageHeaderExtracted = TRUE]
                      IN  IF ~validateMessageSize(e, size)
                          THEN Ret([b EXCEPT !.immediateQueue =
                                        setImmediate(@, ErrorCallbackLate)],
                                   -1)
                          ELSE Ret(b, missingBytesCount)

\* The loop of parseBytes from `offset` on.  `seen` holds the (offset,
\* fields) pairs the loop has already been in: the loop body is a function
\* of them, so being in one again means the loop never ends.
Configuration(self, offset) ==
    << offset, self.unfinishedMessageBuffer, self.unfinishedMessageSize,
       self.expectedMessageSize, self.bMessageHeaderExtracted >>

\* Mutation of Shutdown: the carry state is reset on the way out.
ShutdownAndReset(self) == [_reset(self) EXCEPT !.bShutdown = TRUE]

\* Mutation of Shutdown: false is returned without setting bShutdown.
ShutdownNotSet(self) == self

\* if (bytesParsed < 0) { this.bShutdown = true; return false; }
Shutdown(self) == [self EXCEPT !.bShutdown = TRUE]

RECURSIVE parseBytesLoop(_, _, _, _, _)
parseBytesLoop(e, self, bytes, offset, seen) ==
    IF ~(offset < Len(bytes))
    THEN Ret(self, "true")
    ELSE IF Configuration(self, offset) \in seen
    THEN Ret(self, "never returns")
    ELSE LET r == IF isFinished(self)
                  THEN _startNewMessage(e, self, bytes, offset)
                  ELSE _continueUnfinishedMessage(e, self, bytes, offset)
             bytesParsed == r.value
         IN  IF r.self.thrown
             THEN Ret([r.self EXCEPT !.thrown = FALSE], "throws")
             ELSE IF bytesParsed < 0
             THEN Ret(Shutdown(r.self), "false")
             ELSE parseBytesLoop(e, r.self, bytes, offset + bytesParsed,
                                 seen \cup {Configuration(self, offset)})

\* Mutation of parseBytes: no isShutdown() check on entry.
parseBytesUnlatched(e, self, bytes) == parseBytesLoop(e, self, bytes, 0, {})

parseBytes(e, self, bytes) ==
    IF isShutdown(self)
    THEN Ret(self, "false")
    ELSE parseBytesLoop(e, self, bytes, 0, {})

\* _write(chunk, encoding, done): the arguments of the calls of done, in
\* order, for what parseBytes returned and the lastError of that moment.
_writeDone(result, lastErr) ==
    (IF result # "true"
     THEN << IF lastErr # "null" THEN lastErr ELSE "unknown error" >>
     ELSE << >>)
    \o << "undefined" >>

\* What stream.Writable does with the calls of done that _write made
\* inside the call (_write calls done once with no error, or with an error
\* and then again): the first call ends the write, its error kept for the
\* next tick; a second call finds no write under way, and the stream
\* destroys itself with ERR_MULTIPLE_CALLBACK on the spot and hands the
\* 'error' event to process.nextTick.  Only the error the stream was
\* destroyed with is emitted, so the error of the first call never is.
\* A _write that ended without calling done (it threw) leaves the stream
\* with its write under way for good.
onwrite(done) ==
    IF Len(done) > 1
    THEN [destroyed |-> TRUE, writing |-> FALSE,
          ticks |-> << "ERR_MULTIPLE_CALLBACK" >>]
    ELSE [destroyed |-> FALSE, writing |-> Len(done) = 0, ticks |-> << >>]

\* ---------------------------------------------------------------- state

VARIABLES
    extractorName,             \* the name of the extractor given to the constructor
    headerExtractor,           \* this.headerExtractor
    initialBufferSize,         \* the constructor's initialBufferSize
    unfinishedMessageBuffer,   \* this.unfinishedMessageBuffer
    unfinishedMessageSize,     \* this.unfinishedMessageSize
    expectedMessageSize,       \* this.expectedMessageSize
    bMessageHeaderExtracted,   \* this.bMessageHeaderExtracted
    bShutdown,                 \* this.bShutdown
    lastError,                 \* this.lastError: "null" or the error
    immediateQueue,            \* callbacks handed to setImmediate, not yet run
    emitted,                   \* the 'message' and 'error' events the listeners have received
    destroyed,                 \* the Writable has been destroyed
    writing,                   \* the Writable waits for done to be called
    tickQueue,                 \* stream errors handed to process.nextTick, not yet emitted
    fed,                       \* every byte handed to the parser so far
    chunkMemory,               \* the memory of the chunk last passed, as it is now
    lastCall                   \* the last call made: its chunk and outcome

vars == << extractorName, headerExtractor, initialBufferSize, unfinishedMessageBuffer, unfinishedMessageSize,
           expectedMessageSize, bMessageHeaderExtracted, bShutdown,
           lastError, immediateQueue, emitted, destroyed, writing, tickQueue,
           fed, chunkMemory, lastCall >>

\* The parser's fields as the object the methods work on.
This ==
    ParserFields(unfinishedMessageBuffer, unfinishedMessageSize,
                 expectedMessageSize, bMessageHeaderExtracted, bShutdown,
                 immediateQueue, emitted)

SetThis(self) ==
    /\ unfinishedMessageBuffer' = self.unfinishedMessageBuffer
    /\ unfinishedMessageSize' = self.unfinishedMessageSize
    /\ expectedMessageSize' = self.expectedMessageSize
    /\ bMessageHeaderExtracted' = self.bMessageHeaderExtracted
    /\ bShutdown' = self.bShutdown
    /\ immediateQueue' = self.immediateQueue
    /\ emitted' = self.emitted

\* The bytes the chunks are made of: zero, the sizes of a message that is
\* its header alone and of one with a byte of body (without a validator:
\* of one a byte shorter than its header), and a byte with the high bit set
\* (a negative size for the signed types).  The widest unsigned type gets
\* 127: a size of 2^31 or more is beyond the checker's integers.
HighByte(e) ==
    IF e.methodName \in {"readUInt32LE", "readUInt32BE"} THEN 127 ELSE 255

Bytes(e) ==
    IF e.hasValidate
    THEN {0, e.headerByteCount, e.headerByteCount + 1, HighByte(e)}
    ELSE {0, e.headerByteCount - 1, e.headerByteCount, HighByte(e)}

\* The chunks a caller may pass next: not empty, and within the stream bound.
Chunks == SeqsUpTo(Bytes(headerExtractor), MaxStreamLen - Len(fed)) \ {<<>>}

NoCall == [op |-> "none", chunk |-> <<>>, result |-> "none", done |-> <<>>]

InitWith(extractors) ==
    /\ extractorName \in DOMAIN extractors
    /\ headerExtractor = extractors[extractorName]
    /\ initialBufferSize \in 1..MaxInitialBufferSize
    /\    LET self == NewParser(initialBufferSize)
          IN  /\ unfinishedMessageBuffer = self.unfinishedMessageBuffer
              /\ unfinishedMessageSize = self.unfinishedMessageSize
              /\ expectedMessageSize = self.expectedMessageSize
              /\ bMessageHeaderExtracted = self.bMessageHeaderExtracted
              /\ bShutdown = self.bShutdown
              /\ immediateQueue = self.immediateQueue
              /\ emitted = self.emitted
    /\ lastError = "null"
    /\ destroyed = FALSE
    /\ writing = FALSE
    /\ tickQueue = <<>>
    /\ fed = <<>>
    /\ chunkMemory = <<>>
    /\ lastCall = NoCall

Init == InitWith(StandardExtractors)

\* A call that never returns leaves the process in its loop for good.
Running == lastCall.result # "never returns"

\* parser.parseBytes(chunk)
ParseBytes(chunk) ==
    /\ Running
    /\ LET r == parseBytes(headerExtractor, This, chunk)
       IN  /\ SetThis(r.self)
           /\ lastCall' = [op |-> "parseBytes", chunk |-> chunk,
                           result |-> r.value, done |-> <<>>]
    /\ fed' = fed \o chunk
    /\ chunkMemory' = chunk
    /\ UNCHANGED << extractorName, headerExtractor, initialBufferSize,
                    lastError, destroyed, writing, tickQueue >>

\* parser.write(chunk): the stream hands the chunk to
\* _write(chunk, encoding, done) and reacts to the calls of done.  A
\* destroyed stream does not call _write any more, and a stream whose
\* write is under way keeps the chunk in its own buffer until done is
\* called.
Write(chunk) ==
    /\ Running
    /\ ~destroyed
    /\ ~writing
    /\ LET r == parseBytes(headerExtractor, This, chunk)
           done == IF r.value \in {"true", "false"}
                   THEN _writeDone(r.value, lastError)
                   ELSE <<>>
       IN  /\ SetThis(r.self)
           /\ lastCall' = [op |-> "_write", chunk |-> chunk,
                           result |-> r.value, done |-> done]
           /\ destroyed' = onwrite(done).destroyed
           /\ writing' = onwrite(done).writing
           /\ tickQueue' = tickQueue \o onwrite(done).ticks
    /\ fed' = fed \o chunk
    /\ chunkMemory' = chunk
    /\ UNCHANGED << extractorName, headerExtractor, initialBufferSize,
                    lastError >>

\* The callbacks of process.nextTick run when the current call is over,
\* before any callback of setImmediate: the stream emits its 'error'.
RunNextTick ==
    /\ Running
    /\ tickQueue # <<>>
    /\ tickQueue' = Tail(tickQueue)
    /\ emitted' = Append(emitted, StreamErrorEvent(Head(tickQueue)))
    /\ UNCHANGED << extractorName, headerExtractor, initialBufferSize,
                    unfinishedMessageBuffer, unfinishedMessageSize,
                    expectedMessageSize, bMessageHeaderExtracted, bShutdown,
                    lastError, immediateQueue, destroyed, writing, fed,
                    chunkMemory, lastCall >>

\* The event loop runs the oldest callback handed to setImmediate:
\* emit('message', message), or _error(ERR_INVALID_MSG_SIZE, {size}).
RunImmediate ==
    /\ Running
    /\ tickQueue = <<>>
    /\ immediateQueue # <<>>
    /\ LET callback == Head(immediateQueue)
       IN  /\ immediateQueue' = Tail(immediateQueue)
           /\ emitted' = Append(emitted,
                                EventOf(Held(callback,
                                             unfinishedMessageBuffer,
                                             chunkMemory),
                                        expectedMessageSize))
           /\ lastError' = IF callback.type = "error"
                           THEN ERR_INVALID_MSG_SIZE
                           ELSE lastError
    /\ UNCHANGED << extractorName, headerExtractor, initialBufferSize,
                    unfinishedMessageBuffer,
                    unfinishedMessageSize, expectedMessageSize,
                    bMessageHeaderExtracted, bShutdown, destroyed, writing,
                    tickQueue, fed, chunkMemory, lastCall >>

ParseBytesCall == \E chunk \in Chunks : ParseBytes(chunk)

WriteCall == \E chunk \in Chunks : Write(chunk)

Next == ParseBytesCall \/ RunImmediate

Spec == Init /\ [][Next]_vars

\* The parser as the sink of a stream: every chunk arrives through _write.
NextWritable == WriteCall \/ RunNextTick \/ RunImmediate

SpecWritable == Init /\ [][NextWritable]_vars

\* The caller writes into the Buffer it passed to the last call
\* (chunk.fill(byte)) after the call has returned.
MutateChunk(byte) ==
    /\ Running
    /\ chunkMemory' = [i \in 1..Len(chunkMemory) |-> byte]
    /\ chunkMemory' # chunkMemory
    /\ UNCHANGED << extractorName, headerExtractor, initialBufferSize,
                    unfinishedMessageBuffer, unfinishedMessageSize,
                    expectedMessageSize, bMessageHeaderExtracted, bShutdown,
                    lastError, immediateQueue, emitted, destroyed, writing,
                    tickQueue, fed, lastCall >>

\* The bytes the caller fills the chunk with.
FillBytes(e) == {0, HighByte(e)}

MutateChunkCall ==
    \E byte \in FillBytes(headerExtractor) : MutateChunk(byte)

\* One standard extractor of each header width.
OneExtractorPerWidth ==
    [n \in {"HeaderExtractorInt8", "HeaderExtractorUInt16LE",
             "HeaderExtractorInt32BE"} |-> StandardExtractors[n]]

\* The parser with a caller that reuses the memory of the chunks it passed.
InitOwnership == InitWith(OneExtractorPerWidth)

NextOwnership == ParseBytesCall \/ RunImmediate \/ MutateChunkCall

SpecOwnership == InitOwnership /\ [][NextOwnership]_vars

\* The event loop runs the oldest callback and the listener of the event
\* it emits calls parser.parseBytes(chunk): emit runs the listener inside
\* the callback, after the callback left the queue and (for an error)
\* after _error set lastError.
RunImmediateCalling(chunk) ==
    /\ Running
    /\ tickQueue = <<>>
    /\ immediateQueue # <<>>
    /\ LET callback == Head(immediateQueue)
           delivered ==
               [This EXCEPT
                  !.immediateQueue = Tail(@),
                  !.emitted = Append(@, EventOf(Held(callback,
                                                     unfinishedMessageBuffer,
                                                     chunkMemory),
                                                expectedMessageSize))]
           r == parseBytes(headerExtractor, delivered, chunk)
       IN  /\ SetThis(r.self)
           /\ lastError' = IF callback.type = "error"
                           THEN ERR_INVALID_MSG_SIZE
                           ELSE lastError
           /\ lastCall' = [op |-> "parseBytes in listener", chunk |-> chunk,
                           result |-> r.value, done |-> <<>>]
    /\ fed' = fed \o chunk
    /\ chunkMemory' = chunk
    /\ UNCHANGED << extractorName, headerExtractor, initialBufferSize,
                    destroyed, writing, tickQueue >>

ListenerCall == \E chunk \in Chunks : RunImmediateCalling(chunk)

\* The parser with listeners that may feed it.
InitReentrant == InitWith(OneExtractorPerWidth)

NextReentrant == ParseBytesCall \/ RunImmediate \/ ListenerCall

SpecReentrant == InitReentrant /\ [][NextReentrant]_vars

\* A parser built on an extractor that has no validateMessageSize.
InitCustom == InitWith(CustomExtractors)

SpecCustom == InitCustom /\ [][Next]_vars

\* ------------------------------------------------ reference framing

\* The header of a stream that holds one.
HeaderOf(e, stream) == SubSeq(stream, 1, e.headerByteCount)

\* The framing the byte stream itself defines, whatever its chunks: the
\* complete messages in order, then the size of the first header that is
\* smaller than the header itself (if any), then the bytes left over.
RECURSIVE Frames(_, _)
Frames(e, stream) ==
    IF Len(stream) < e.headerByteCount
    THEN [messages |-> <<>>, invalid |-> <<>>, rest |-> stream]
    ELSE LET size == extractMessageSize(e, HeaderOf(e, stream))
         IN  IF size < e.headerByteCount
             THEN [messages |-> <<>>, invalid |-> <<size>>,
                   rest |-> SubSeq(stream, e.headerByteCount + 1, Len(stream))]
             ELSE IF Len(stream) < size
             THEN [messages |-> <<>>, invalid |-> <<>>, rest |-> stream]
             ELSE LET f == Frames(e, SubSeq(stream, size + 1, Len(stream)))
                  IN  [f EXCEPT !.messages = <<SubSeq(stream, 1, size)>> \o @]

\* A stream that is exactly one valid message.
IsValidMessage(e, stream) ==
    /\ Len(stream) >= e.headerByteCount
    /\ extractMessageSize(e, HeaderOf(e, stream)) = Len(stream)

\* Every notification scheduled so far, in order: those the listeners have
\* received, then those still waiting to run (the callbacks of
\* process.nextTick run before those of setImmediate).
Notifications ==
    emitted \o [i \in 1..Len(tickQueue) |-> StreamErrorEvent(tickQueue[i])]
            \o [i \in 1..Len(immediateQueue) |->
                  EventOf(Held(immediateQueue[i], unfinishedMessageBuffer,
                               chunkMemory),
                          expectedMessageSize)]

MessageEvents(messages) ==
    [i \in 1..Len(messages) |-> MessageEvent(messages[i])]

\* The stream before the last call.
FedBefore == SubSeq(fed, 1, Len(fed) - Len(lastCall.chunk))

\* ---------------------------------------------------------------- C1

\* C1: chunk-boundary independence.  Whenever the chunks fed so far to a
\* fresh parser make up exactly one valid message M (the header alone
\* included), exactly one message notification has been scheduled, it
\* equals M, and nothing else has.
C1_ChunkBoundaryIndependence ==
    IsValidMessage(headerExtractor, fed)
        => Notifications = << MessageEvent(fed) >>

\* ---------------------------------------------------------------- C2

\* C2: when the first call on a fresh parser carries N >= 1 valid messages
\* and nothing else, it returns true, leaves the parser idle, and the
\* notifications scheduled are exactly the N messages in stream order (so
\* the listeners receive them in that order).
C2_ConcatenatedMessages ==
    LET f == Frames(headerExtractor, fed)
    IN  ( /\ lastCall.op = "parseBytes"
          /\ lastCall.chunk = fed
          /\ f.messages # <<>>
          /\ f.invalid = <<>>
          /\ f.rest = <<>> )
        => /\ lastCall.result = "true"
           /\ isFinished(This)
           /\ Notifications = MessageEvents(f.messages)

\* Two different messages in one chunk, both received by the listener.
C2_Witness ==
    LET f == Frames(headerExtractor, fed)
    IN  /\ lastCall.chunk = fed
        /\ Len(f.messages) >= 2
        /\ f.messages[1] # f.messages[2]
        /\ f.invalid = <<>>
        /\ f.rest = <<>>
        /\ emitted = MessageEvents(f.messages)

\* ---------------------------------------------------------------- C3

\* C3: shutdown is a one-way latch.  From a state where the parser is shut
\* down, every step leaves it shut down, and a parseBytes call returns
\* false, schedules and emits nothing, and leaves the carry buffer, the
\* carry length, the expected size and the header flag as they were.
C3_ShutdownLatch ==
    [][ bShutdown =>
          /\ bShutdown'
          /\ (fed' # fed) =>
                /\ lastCall'.result = "false"
                /\ immediateQueue' = immediateQueue
                /\ emitted' = emitted
                /\ unfinishedMessageBuffer' = unfinishedMessageBuffer
                /\ unfinishedMessageSize' = unfinishedMessageSize
                /\ expectedMessageSize' = expectedMessageSize
                /\ bMessageHeaderExtracted' = bMessageHeaderExtracted ]_vars

\* A valid message was passed to a parser an earlier call had shut down.
C3_Witness ==
    /\ bShutdown
    /\ Frames(headerExtractor, FedBefore).invalid # <<>>
    /\ IsValidMessage(headerExtractor, lastCall.chunk)
    /\ lastCall.result = "false"

\* ---------------------------------------------------------------- C4

ErrorsOf(events) == SelectSeq(events, LAMBDA n : n.type = "error")

\* C4: a stream whose framing meets a header that fails validation has
\* produced exactly one error notification, its context.size is the size
\* decoded from that header, the parser is shut down and the call
\* returned false; a stream without one has produced no error.
C4_OneErrorPerFailure ==
    LET f == Frames(headerExtractor, fed)
    IN  IF f.invalid # <<>>
        THEN /\ ErrorsOf(Notifications) = << ErrorEvent(f.invalid[1]) >>
             /\ bShutdown
             /\ lastCall.result = "false"
        ELSE /\ ErrorsOf(Notifications) = <<>>
             /\ ~bShutdown

\* The rejected header was completed in the carry buffer by the last call
\* (the chunk is shorter than a header), and the listener got the error.
C4_Witness ==
    LET f == Frames(headerExtractor, fed)
    IN  /\ Frames(headerExtractor, FedBefore).invalid = <<>>
        /\ f.invalid # <<>>
        /\ f.invalid[1] # 0
        /\ Len(lastCall.chunk) < headerExtractor.headerByteCount
        /\ ErrorsOf(emitted) = << ErrorEvent(f.invalid[1]) >>

\* ---------------------------------------------------------------- C5

\* C5: once the stream holds k valid messages, then a header that fails
\* validation, then anything (all in one chunk, or in several), the
\* notifications are those k messages in stream order followed by the one
\* error, and nothing else, in this state and in every later one.
C5_ErrorAfterMessages ==
    LET f == Frames(headerExtractor, fed)
    IN  (f.invalid # <<>>)
        => Notifications =
               MessageEvents(f.messages) \o << ErrorEvent(f.invalid[1]) >>

\* A message, a bad header and another complete valid message in one
\* chunk, everything scheduled already delivered.
C5_Witness ==
    LET f == Frames(headerExtractor, fed)
    IN  /\ lastCall.chunk = fed
        /\ f.messages # <<>>
        /\ f.invalid # <<>>
        /\ Frames(headerExtractor, f.rest).messages # <<>>
        /\ immediateQueue = <<>>

\* ---------------------------------------------------------------- C6

\* C6: a parseBytes call runs no listener (emitted is unchanged) and only
\* adds callbacks behind those already waiting; every other step runs the
\* oldest waiting callback, so notifications run after the call that
\* scheduled them, in the order they were scheduled.
C6_AsynchronousInOrder ==
    [][ /\ (fed' # fed) =>
              /\ emitted' = emitted
              /\ Len(immediateQueue') >= Len(immediateQueue)
              /\ SubSeq(immediateQueue', 1, Len(immediateQueue))
                    = immediateQueue
        /\ (fed' = fed) =>
              /\ immediateQueue # <<>>
              /\ immediateQueue' = Tail(immediateQueue)
              /\ emitted' = Append(emitted,
                       EventOf(Head(immediateQueue), expectedMessageSize)) ]_vars

\* One call scheduled several notifications; some have run, some wait.
C6_Witness ==
    /\ lastCall.chunk = fed
    /\ Len(emitted) >= 2
    /\ immediateQueue # <<>>

\* ---------------------------------------------------------------- C7

\* C7 as claimed: with no validateMessageSize in the extractor, once a
\* header decodes to less than headerByteCount (and the call returned)
\* the parser is shut down with the invalid-size error for that size.
C7_DefaultRejectsSmallSizes ==
    LET f == Frames(headerExtractor, fed)
    IN  (f.invalid # <<>> /\ lastCall.result \in {"true", "false"})
        => /\ bShutdown
           /\ ErrorsOf(Notifications) = << ErrorEvent(f.invalid[1]) >>

\* C7 as amended: with no validateMessageSize in the extractor, the
\* default policy accepts every decoded size, so no header, whatever it
\* decodes to, makes parseBytes signal the invalid-size error: no error
\* notification is ever scheduled and lastError is never set.
C7_DefaultAcceptsEverySize ==
    ~headerExtractor.hasValidate
        => /\ ErrorsOf(Notifications) = <<>>
           /\ lastError = "null"

\* A header that decoded to less than headerByteCount was accepted: the
\* listener received a message shorter than a header.
C7_Witness ==
    /\ Frames(headerExtractor, fed).invalid # <<>>
    /\ \E i \in 1..Len(emitted) :
          /\ emitted[i].type = "message"
          /\ Len(emitted[i].message) < headerExtractor.headerByteCount
          /\ Len(emitted[i].message) > 0

\* ---------------------------------------------------------------- C8

\* C8: whenever _write gets false from parseBytes, the error it passes to
\* done is the recorded invalid-message-size error, and lastError is
\* recorded whenever the parser is shut down.
C8_WriteSurfacesLastError ==
    /\ (lastCall.op = "_write" /\ lastCall.result = "false")
          => Head(lastCall.done) = ERR_INVALID_MSG_SIZE
    /\ bShutdown => lastError = ERR_INVALID_MSG_SIZE

\* ---------------------------------------------------------------- C9

\* C9: a valid message longer than the initial buffer size that arrived in
\* more than one chunk (so that it went through the carry buffer, which
\* had to grow) has been emitted, once and byte for byte.
C9_BufferGrowth ==
    ( /\ IsValidMessage(headerExtractor, fed)
      /\ Len(fed) > initialBufferSize
      /\ lastCall.chunk # fed )
    => Notifications = << MessageEvent(fed) >>

\* ---------------------------------------------------------------- C10

\* What the exported name says of the integer type.
NamedWidth(name) ==
    CASE name \in {"HeaderExtractorInt8", "HeaderExtractorUInt8"} -> 1
      [] name \in {"HeaderExtractorInt16LE", "HeaderExtractorUInt16LE",
                   "HeaderExtractorInt16BE", "HeaderExtractorUInt16BE"} -> 2
      [] name \in {"HeaderExtractorInt32LE", "HeaderExtractorUInt32LE",
                   "HeaderExtractorInt32BE", "HeaderExtractorUInt32BE"} -> 4

NamedSigned(name) ==
    name \in {"HeaderExtractorInt8", "HeaderExtractorInt16LE",
              "HeaderExtractorInt16BE", "HeaderExtractorInt32LE",
              "HeaderExtractorInt32BE"}

NamedLittleEndian(name) ==
    name \in {"HeaderExtractorInt16LE", "HeaderExtractorUInt16LE",
              "HeaderExtractorInt32LE", "HeaderExtractorUInt32LE"}

RECURSIVE Pow256(_)
Pow256(k) == IF k = 0 THEN 1 ELSE 256 * Pow256(k - 1)

\* v is the integer the header h encodes in the named type: byte k of v
\* (two's complement, least significant first) is the header byte the
\* byte order puts there, and v is in the range of the type.
DecodesAs(name, h, v) ==
    LET w   == NamedWidth(name)
        top == v \div Pow256(w - 1)
    IN  /\ Len(h) = w
        /\ \A k \in 0..(w - 1) :
              (v \div Pow256(k)) % 256 =
                  IF NamedLittleEndian(name) THEN h[k + 1] ELSE h[w - k]
        /\ IF NamedSigned(name)
           THEN top >= -128 /\ top <= 127
           ELSE top >= 0 /\ top <= 255

\* C10: the extractor exported under a name has the width of the named
\* type as headerByteCount, decodes the header of the stream as the named
\* type, and a first call carrying exactly one message whose header
\* encodes its own length yields that message and nothing else.
C10_StandardExtractors ==
    LET e == headerExtractor
    IN  /\ e.headerByteCount = NamedWidth(extractorName)
        /\ Len(fed) >= NamedWidth(extractorName) =>
              DecodesAs(extractorName,
                        SubSeq(fed, 1, NamedWidth(extractorName)),
                        extractMessageSize(e, HeaderOf(e, fed)))
        /\ ( /\ lastCall.chunk = fed
             /\ Len(fed) >= NamedWidth(extractorName)
             /\ extractMessageSize(e, HeaderOf(e, fed)) = Len(fed) )
           => /\ lastCall.result = "true"
              /\ Notifications = << MessageEvent(fed) >>

\* A little-endian 32-bit header and a byte of body, passed in one call,
\* came out as one message.
C10_Witness ==
    /\ extractorName = "HeaderExtractorInt32LE"
    /\ lastCall.chunk = fed
    /\ Len(fed) = 5
    /\ emitted = << MessageEvent(fed) >>

\* ---------------------------------------------------------------- C11

\* C11: a parseBytes call on a parser that is not shut down at entry
\* returns true or false; true exactly when the stream up to the end of the
\* chunk frames without a header that fails validation (the whole chunk was
\* processed), false exactly when the parser is shut down on return.
C11_ReturnValue ==
    [][ (~bShutdown /\ fed' # fed) =>
          /\ lastCall'.result \in {"true", "false"}
          /\ lastCall'.result = "true"
                <=> Frames(headerExtractor, fed').invalid = <<>>
          /\ lastCall'.result = "false" <=> bShutdown' ]_vars

\* A call on a parser with bytes in carry met, after completing a message,
\* a header that fails validation: it returned false partway through.
C11_Witness ==
    /\ lastCall.op = "parseBytes"
    /\ lastCall.chunk # fed
    /\ Frames(headerExtractor, FedBefore).invalid = <<>>
    /\ Frames(headerExtractor, FedBefore).rest # <<>>
    /\ Frames(headerExtractor, fed).messages # <<>>
    /\ Frames(headerExtractor, fed).invalid # <<>>
    /\ lastCall.result = "false"
    /\ bShutdown

\* ---------------------------------------------------------------- C12

MessagesOf(events) == SelectSeq(events, LAMBDA n : n.type = "message")

\* C12: the messages scheduled so far, read as their Buffers are now, are
\* the first complete messages of the stream as it was passed, byte for
\* byte: nothing done since a message was completed (later frames, later
\* calls writing into the carry buffer or replacing it, the caller
\* overwriting the chunk it passed) has changed a message that waits.
C12_IndependentCopy ==
    LET f == Frames(headerExtractor, fed)
        m == MessagesOf(Notifications)
    IN  /\ Len(m) <= Len(f.messages)
        /\ m = MessageEvents(SubSeq(f.messages, 1, Len(m)))

\* A message taken out of the chunk waited while the caller overwrote the
\* chunk, another completed in the carry buffer waited while a later call
\* wrote into the carry buffer, and the listener has received both.
C12_Witness ==
    /\ Len(MessagesOf(emitted)) >= 2
    /\ chunkMemory # lastCall.chunk
    /\ unfinishedMessageSize > 0
    /\ Len(fed) > Len(lastCall.chunk)

\* ---------------------------------------------------------------- C13

\* C13: after a parseBytes call that returned true the carry buffer does
\* not hold a complete message: the parser is idle, or the carry is
\* shorter than the expected size (the header width while the header is
\* not extracted).
C13_NoCompleteMessageInCarry ==
    (lastCall.op = "parseBytes" /\ lastCall.result = "true")
        => \/ isFinished(This)
           \/ unfinishedMessageSize < expectedMessageSize

\* ---------------------------------------------------------------- C14

\* C14: whatever extractor the constructor accepted and whatever the
\* chunk, every parseBytes call made has come to an end: the loop has not
\* come back to a cursor position and carry state it was in before.
C14_Termination == lastCall.result # "never returns"

\* ---------------------------------------------------------------- C15

\* The bytes of the messages among the events, end to end.
RECURSIVE MessageBytes(_)
MessageBytes(events) ==
    IF events = <<>> THEN <<>>
    ELSE (IF Head(events).type = "message" THEN Head(events).message
          ELSE <<>>) \o MessageBytes(Tail(events))

\* C15: completing a message resets the carry state and keeps the buffer.
\* In every state, _notifyMessageReceived leaves carry length 0, the header
\* flag false and the expected size 0 and the carry buffer as it was; a
\* call that ended on a completion (it scheduled a message and every byte
\* passed so far is in a scheduled message) leaves the parser in that
\* state; and no step makes the carry buffer smaller.
C15_ResetOnCompletion ==
    [][ /\ LET r == _notifyMessageReceived(This, unfinishedMessageBuffer, 0,
                                           unfinishedMessageSize)
           IN  /\ r.unfinishedMessageSize = 0
               /\ ~r.bMessageHeaderExtracted
               /\ r.expectedMessageSize = 0
               /\ r.unfinishedMessageBuffer = unfinishedMessageBuffer
        /\ ( /\ fed' # fed
             /\ Len(immediateQueue') > Len(immediateQueue)
             /\ MessageBytes(Notifications') = fed' )
           => /\ unfinishedMessageSize' = 0
              /\ ~bMessageHeaderExtracted'
              /\ expectedMessageSize' = 0
        /\ Len(unfinishedMessageBuffer') >= Len(unfinishedMessageBuffer)
      ]_vars

\* A message longer than the initial buffer was assembled in the carry
\* buffer and completed by the last call: the parser is idle and the
\* buffer is still as large as the message made it.
C15_Witness ==
    /\ lastCall.chunk # fed
    /\ Notifications = << MessageEvent(fed) >>
    /\ unfinishedMessageSize = 0
    /\ expectedMessageSize = 0
    /\ ~bMessageHeaderExtracted
    /\ Len(unfinishedMessageBuffer) = Len(fed)
    /\ Len(fed) > initialBufferSize

\* ---------------------------------------------------------------- C16

\* C16: in every state the carry length L is within the capacity C of the
\* carry buffer, and appending any n bytes of the chunk last passed (from
\* any offset) leaves a buffer of capacity C when L + n <= C and of
\* capacity exactly L + n otherwise, whose first L bytes are those carried
\* before, followed by the n bytes, with carry length L + n.
C16_GrowthPolicy ==
    LET L == unfinishedMessageSize
        C == Len(unfinishedMessageBuffer)
        dataBuffer == lastCall.chunk
    IN  /\ L <= C
        /\ \A offset \in 0..Len(dataBuffer) :
           \A n \in 0..(Len(dataBuffer) - offset) :
              LET a == _appendToUnfinishedMessage(This, dataBuffer, offset, n)
              IN  /\ ~a.thrown
                  /\ Len(a.unfinishedMessageBuffer) =
                         (IF L + n <= C THEN C ELSE L + n)
                  /\ a.unfinishedMessageSize = L + n
                  /\ SubSeq(a.unfinishedMessageBuffer, 1, L) =
                         SubSeq(unfinishedMessageBuffer, 1, L)
                  /\ SubSeq(a.unfinishedMessageBuffer, L + 1, L + n) =
                         SubSeq(dataBuffer, offset + 1, offset + n)

\* The carry buffer has grown twice, each time to exactly the bytes
\* carried: it is full, longer than the last chunk and than the initial
\* size plus a byte, and holds the whole stream.
C16_Witness ==
    /\ unfinishedMessageSize = Len(unfinishedMessageBuffer)
    /\ unfinishedMessageSize = Len(fed)
    /\ SubSeq(unfinishedMessageBuffer, 1, unfinishedMessageSize) = fed
    /\ Len(fed) > initialBufferSize + 1
    /\ Len(lastCall.chunk) = 1
    /\ Len(FedBefore) > initialBufferSize

\* ---------------------------------------------------------------- C17

\* C17: between calls, a parser that is not shut down is in one of three
\* consistent conditions: idle, with the header flag false and the expected
\* size 0; carrying less than a header, with the flag false and the
\* expected size the header width; or carrying at least a header, with the
\* flag true and the expected size the one the carried header decodes to.
C17_StateConsistency ==
    LET e == headerExtractor
    IN  ~bShutdown =>
          /\ unfinishedMessageSize = 0 =>
                ~bMessageHeaderExtracted /\ expectedMessageSize = 0
          /\ (unfinishedMessageSize # 0 /\ ~bMessageHeaderExtracted) =>
                /\ expectedMessageSize = e.headerByteCount
                /\ unfinishedMessageSize < e.headerByteCount
          /\ (unfinishedMessageSize # 0 /\ bMessageHeaderExtracted) =>
                /\ unfinishedMessageSize >= e.headerByteCount
                /\ expectedMessageSize =
                       extractMessageSize(e,
                           HeaderOf(e, unfinishedMessageBuffer))

\* After a completed message, the bytes that follow it are carried: the
\* last call added one byte to a carry that holds a header and more, with
\* the header extracted and the message still incomplete.
C17_Witness ==
    LET f == Frames(headerExtractor, fed)
    IN  /\ ~bShutdown
        /\ Len(f.messages) = 1
        /\ Len(lastCall.chunk) = 1
        /\ bMessageHeaderExtracted
        /\ unfinishedMessageSize > headerExtractor.headerByteCount
        /\ expectedMessageSize > unfinishedMessageSize
        /\ f.rest = SubSeq(unfinishedMessageBuffer, 1, unfinishedMessageSize)

\* ---------------------------------------------------------------- C18

\* The bytes the parser carries.
Carry == SubSeq(unfinishedMessageBuffer, 1, unfinishedMessageSize)

\* C18: as long as every call has returned true, the messages scheduled so
\* far, end to end in the order they were scheduled, followed by the bytes
\* carried, are the chunks passed so far end to end: no byte is lost,
\* doubled or in two messages.
C18_ByteConservation ==
    (~bShutdown /\ lastCall.result \in {"none", "true"})
        => MessageBytes(Notifications) \o Carry = fed

\* Two messages and a carry: one message has been received and one
\* waits, and the bytes carried came in more than one chunk.
C18_Witness ==
    /\ ~bShutdown
    /\ Len(MessagesOf(emitted)) = 1
    /\ Len(immediateQueue) = 1
    /\ unfinishedMessageSize > 1
    /\ Len(lastCall.chunk) = 1

\* ---------------------------------------------------------------- C19

\* C19: a _write that got true or false from parseBytes has called done
\* exactly once: with no error when parseBytes returned true, with an
\* error when it returned false.
C19_DoneExactlyOnce ==
    (lastCall.op = "_write" /\ lastCall.result \in {"true", "false"})
        => /\ Len(lastCall.done) = 1
           /\ lastCall.result = "true" <=> lastCall.done[1] = "undefined"

\* ---------------------------------------------------------------- C20

\* C20: a parseBytes call made by a listener returns what a top-level call
\* with the same chunk would have returned in the state the callback found
\* (the one the last completed call left) and leaves the same carry
\* state; it returns false in the listener of an error; true or false
\* follows the stream as for any call; the listener's event is the only one
\* delivered by the step; and what the call schedules comes after
\* everything scheduled before it.
C20_CallFromListener ==
    [][ (lastCall'.op = "parseBytes in listener" /\ fed' # fed) =>
          LET top == parseBytes(headerExtractor, This, lastCall'.chunk)
          IN  /\ lastCall'.result = top.value
              /\ unfinishedMessageBuffer' = top.self.unfinishedMessageBuffer
              /\ unfinishedMessageSize' = top.self.unfinishedMessageSize
              /\ expectedMessageSize' = top.self.expectedMessageSize
              /\ bMessageHeaderExtracted' = top.self.bMessageHeaderExtracted
              /\ bShutdown' = top.self.bShutdown
              /\ Head(immediateQueue).type = "error"
                    => lastCall'.result = "false"
              /\ lastCall'.result = "true"
                    <=> Frames(headerExtractor, fed').invalid = <<>>
              /\ lastCall'.result = "false" <=> bShutdown'
              /\ emitted' = Append(emitted, Notifications[Len(emitted) + 1])
              /\ SubSeq(Notifications', 1, Len(Notifications))
                    = Notifications ]_vars

\* A message listener passed the parser another message while an earlier
\* one still waited: the call returned true and its message waits behind.
C20_Witness ==
    /\ lastCall.op = "parseBytes in listener"
    /\ lastCall.result = "true"
    /\ IsValidMessage(headerExtractor, lastCall.chunk)
    /\ emitted # <<>>
    /\ Len(immediateQueue) >= 2
    /\ immediateQueue[Len(immediateQueue)] = MessageCallback(lastCall.chunk)
    /\ immediateQueue[1] # MessageCallback(lastCall.chunk)

====
